---- MODULE Spec2Model ----
(***************************************************************************)
(* Model of index_concepts.py (feup-infolab/latex-index-tools): the        *)
(* indexer that copies a LaTeX project and inserts \index{...} markers.    *)
(*                                                                         *)
(* A string is a sequence of one-character strings.  Python indices are    *)
(* 0-based; the operators below take Python indices and convert.           *)
(***************************************************************************)
EXTENDS Integers, Sequences, FiniteSets, TLC

\* ------------------------------------------------------------------------
\* Characters and Python string primitives
\* ------------------------------------------------------------------------

Letters ==
    {"a","b","c","d","e","f","g","h","i","j","k","l","m","n","o","p","q","r",
     "s","t","u","v","w","x","y","z",
     "A","B","C","D","E","F","G","H","I","J","K","L","M","N","O","P","Q","R",
     "S","T","U","V","W","X","Y","Z"}

Digits == {"0","1","2","3","4","5","6","7","8","9"}

\* The characters the regex class \w accepts; \W is every other character.
WordChars == Letters \cup Digits \cup {"_"}

NL == "\n"
BS == "\\"

Min2(a, b) == IF a < b THEN a ELSE b
Max2(a, b) == IF a > b THEN a ELSE b

\* A Python slice bound, normalised as s[a:b] normalises it.
PyBound(s, i) == IF i < 0 THEN Max2(Len(s) + i, 0) ELSE Min2(i, Len(s))

\* s[a:b]
PySlice(s, a, b) ==
    LET lo == PyBound(s, a)
        hi == PyBound(s, b)
    IN  IF lo >= hi THEN << >> ELSE SubSeq(s, lo + 1, hi)

\* s[a:]
PyFrom(s, a) == PySlice(s, a, Len(s))

\* The value a failed subscript yields instead of a character.
IndexError == "IndexError"

\* s[i]: a negative index counts from the end, an index out of range raises.
PyIndex(s, i) ==
    IF i >= Len(s) \/ i < -Len(s) THEN IndexError
    ELSE IF i < 0 THEN s[Len(s) + i + 1]
    ELSE s[i + 1]

\* s.count(ch) for a one-character ch
PyCount(s, ch) == Cardinality({i \in 1..Len(s) : s[i] = ch})

\* ''.join(reversed(s))
Reversed(s) == [i \in 1..Len(s) |-> s[Len(s) + 1 - i]]

\* Whether t occurs in s at Python index i.
OccursAt(s, t, i) ==
    /\ i >= 0
    /\ i + Len(t) <= Len(s)
    /\ SubSeq(s, i + 1, i + Len(t)) = t

\* t in s
Contains(s, t) == \E i \in 0..Len(s) : OccursAt(s, t, i)

\* Fault: the class [^a-zA-Z] in place of \W.
NonLetter(ch) == ch \notin Letters

\* re.match(r'\W', ch) on a one-character string
NonWord(ch) == ch \notin WordChars

\* ------------------------------------------------------------------------
\* Constants of the program
\* ------------------------------------------------------------------------

DISTANCE == 200

sTerm == <<"t","e","r","m">>
sNode == <<"n","o","d","e">>
sAb == <<"a","b">>
sAbc == <<"a","b","c">>
sSlash == <<"a","/","b">>
sSloppypar == <<"s","l","o","p","p","y","p","a","r">>
sFig == <<"f">>

THESIS_STOPWORDS ==
    { <<"e","n","t","i","t","y">>,
      <<"i","n","f","o","r","m","a","t","i","o","n">>,
      <<"d","o","c","u","m","e","n","t">>,
      <<"m","o","d","e","l">>,
      <<"h","y","p","e","r","g","r","a","p","h","-","o","f","-","e","n","t","i","t","y">>,
      sNode,
      <<"e","n","t","i","t","y","-","o","r","i","e","n","t","e","d"," ",
        "s","e","a","r","c","h">>,
      <<"h","y","p","e","r","g","r","a","p","h">>,
      <<"r","a","n","k","i","n","g">>,
      sTerm }

\* ------------------------------------------------------------------------
\* Functions
\* ------------------------------------------------------------------------

BeginTag == <<BS,"b","e","g","i","n","{">>
EndTag == <<BS,"e","n","d","{">>

\* The text of a line without its newline: '.' of the regexes stops there.
BeforeNewline(line) ==
    LET nls == {i \in 1..Len(line) : line[i] = NL}
    IN  IF nls = {} THEN line
        ELSE SubSeq(line, 1, (CHOOSE i \in nls : \A j \in nls : i <= j) - 1)

\* Python indices at which re.match(r'.*<tag>(.*?)}.*', line) can place the
\* tag: the tag occurs there and a closing brace follows it.
TagPlaces(line, tag) ==
    LET s == BeforeNewline(line)
    IN  {i \in 0..Len(s) :
            /\ OccursAt(s, tag, i)
            /\ \E j \in (i + Len(tag) + 1)..Len(s) : s[j] = "}"}

\* group(1) with the tag at Python index i: up to the first closing brace.
TagGroup(line, tag, i) ==
    LET s == BeforeNewline(line)
        from == i + Len(tag) + 1
        close == CHOOSE j \in from..Len(s) :
                    s[j] = "}" /\ \A k \in from..(j - 1) : s[k] # "}"
    IN  SubSeq(s, from, close - 1)

\* Fault: a lazy leading '.*?', which leaves the tag at its first place.
LazyPlace(places) == CHOOSE i \in places : \A j \in places : i <= j

\* Where the greedy leading '.*' leaves the tag: it is tried longest first.
GreedyPlace(places) == CHOOSE i \in places : \A j \in places : j <= i

\* The match object of re.match(r'.*<tag>(.*?)}.*', line): no match, or group(1).
EnvMatch(line, tag) ==
    LET places == TagPlaces(line, tag)
    IN  IF places = {} THEN [matched |-> FALSE, group1 |-> << >>]
        ELSE [matched |-> TRUE,
              group1 |-> TagGroup(line, tag, GreedyPlace(places))]

\* count_env[name], a defaultdict with default 0
EnvGet(count_env, name) ==
    IF name \in DOMAIN count_env THEN count_env[name] ELSE 0

EnvAdd(count_env, name, d) ==
    [n \in DOMAIN count_env \cup {name} |-> EnvGet(count_env, n) + (IF n = name THEN d ELSE 0)]

check_begin(line, count_env, allowed_env) ==
    LET m == EnvMatch(line, BeginTag)
    IN  IF m.matched /\ m.group1 \notin allowed_env
        THEN EnvAdd(count_env, m.group1, 1)
        ELSE count_env

check_end(line, count_env, allowed_env) ==
    LET m == EnvMatch(line, EndTag)
    IN  IF m.matched /\ m.group1 \notin allowed_env
        THEN EnvAdd(count_env, m.group1, -1)
        ELSE count_env

\* Fault: the depth test is off by one.
is_inside_env_deeper(count_env) == \E n \in DOMAIN count_env : count_env[n] > 1

is_inside_env(count_env) == \E n \in DOMAIN count_env : count_env[n] > 0

is_inside_command(line, start_index, end_index, open_char, close_char) ==
    LET before_match == PySlice(line, 0, start_index)
        after_match == PyFrom(line, end_index + 1)
        before_count == PyCount(before_match, open_char) - PyCount(before_match, close_char)
        after_count == PyCount(after_match, open_char) - PyCount(after_match, close_char)
    IN  before_count > 0 /\ after_count < 0

\* re.match(r'^[a-zA-Z]*?\\.*', s): letters, then a backslash.
LettersThenBackslash(s) ==
    \E k \in 1..Len(s) :
        /\ s[k] = BS
        /\ \A j \in 1..(k - 1) : s[j] \in Letters

is_part_of_command(line, end_index) ==
    LET rev_line == Reversed(line)
    IN  LettersThenBackslash(PyFrom(rev_line, -end_index))

is_invalid_concept(concept) ==
    Contains(concept, <<"/">>) \/ Contains(concept, <<"e","t"," ","a","l">>)

\* An option that was not given is None; one that was given holds a set.
None == [some |-> FALSE, val |-> {}]
Some(v) == [some |-> TRUE, val |-> v]

\* Fault: a line exactly DISTANCE after the last annotation passes.
DistanceOkInclusive(last_line_nr, current_line_nr) ==
    last_line_nr = -1 \/ current_line_nr >= last_line_nr + DISTANCE

\* The condition of line 91
DistanceOk(last_line_nr, current_line_nr) ==
    last_line_nr = -1 \/ current_line_nr > last_line_nr + DISTANCE

\* The condition of line 94
StopOk(concept) == concept \notin THESIS_STOPWORDS

\* Fault: the stopword test replaces the condition instead of joining it.
can_annotate_overwriting(methods, last_line_nr, current_line_nr, concept) ==
    IF methods # None /\ "stop" \in methods.val
    THEN StopOk(concept)
    ELSE IF methods # None /\ "dist" \in methods.val
    THEN DistanceOk(last_line_nr, current_line_nr)
    ELSE TRUE

can_annotate(methods, last_line_nr, current_line_nr, concept) ==
    LET cond0 == TRUE
        cond1 == IF methods # None /\ "dist" \in methods.val
                 THEN cond0 /\ DistanceOk(last_line_nr, current_line_nr)
                 ELSE cond0
        cond2 == IF methods # None /\ "stop" \in methods.val
                 THEN cond1 /\ StopOk(concept)
                 ELSE cond1
    IN  cond2

\* ------------------------------------------------------------------------
\* The concepts table and the Aho-Corasick matcher
\* ------------------------------------------------------------------------

\* The rows of the concepts CSV: the surface form and its concept.
ConceptTable ==
    { [match |-> sAb, concept |-> sAb],
      [match |-> sAbc, concept |-> sAb],
      [match |-> sTerm, concept |-> sTerm],
      [match |-> sSlash, concept |-> sSlash] }

Concepts == {r.concept : r \in ConceptTable}

\* matcher.iter_long(line): the longest, non-overlapping matches from left to
\* right, each with the Python index of its last character.
RECURSIVE IterLongFrom(_, _)
IterLongFrom(line, i) ==
    IF i >= Len(line) THEN << >>
    ELSE LET cands == {r \in ConceptTable : OccursAt(line, r.match, i)}
         IN  IF cands = {} THEN IterLongFrom(line, i + 1)
             ELSE LET r == CHOOSE r \in cands :
                              \A q \in cands : Len(q.match) <= Len(r.match)
                  IN  << [end |-> i + Len(r.match) - 1,
                          match |-> r.match,
                          concept |-> r.concept] >>
                      \o IterLongFrom(line, i + Len(r.match))

iter_long(line) == IterLongFrom(line, 0)

\* ------------------------------------------------------------------------
\* Files
\* ------------------------------------------------------------------------

\* A file is held as the lines that iterating it yields: each line keeps its
\* newline, and only the last line of a file may have none.  SplitLines
\* gives the lines of a text.
RECURSIVE SplitFrom(_, _, _)
SplitFrom(s, i, start) ==
    IF i > Len(s)
    THEN IF start > Len(s) THEN << >> ELSE << SubSeq(s, start, Len(s)) >>
    ELSE IF s[i] = NL
         THEN << SubSeq(s, start, i) >> \o SplitFrom(s, i + 1, i + 1)
         ELSE SplitFrom(s, i + 1, start)

SplitLines(content) == SplitFrom(content, 1, 1)

\* A path relative to the project directory: its stem and its extension.
TexA == <<"a", "tex">>
TexB == <<"b", "tex">>
BibR == <<"r", "bib">>

\* The order sorted() gives the paths of the model.
PathOrder == << TexA, TexB, BibR >>

IsTex(path) == path[2] = "tex"

\* sorted(S) for a set S of paths
Sorted(S) ==
    LET idx == {i \in 1..Len(PathOrder) : PathOrder[i] \in S}
        RECURSIVE Pick(_)
        Pick(k) == IF k > Len(PathOrder) THEN << >>
                   ELSE (IF k \in idx THEN << PathOrder[k] >> ELSE << >>) \o Pick(k + 1)
    IN  Pick(1)

\* '\\index{' + concept + '}'
Annotation(concept) == <<BS,"i","n","d","e","x","{">> \o concept \o <<"}">>

\* ------------------------------------------------------------------------
\* State
\* ------------------------------------------------------------------------

VARIABLES
    pc,          \* where the script is
    args,        \* the parsed command line, and whether the target exists
    source,      \* the project directory: path -> content
    tree,        \* the output tree: path -> content
    tmp,         \* the scratch file: whether it exists, and its content
    paths,       \* the paths still to process, in order
    path,        \* the path being processed
    stats,       \* the statistics
    last_line,   \* concept -> line of its last annotation in this file
    count_env,   \* environment -> depth
    line_nr,     \* the index of the current line
    line,        \* the current line, rewritten as markers are inserted
    pending,     \* the matches iter_long has still to yield
    total_annotation_length,
    inserted     \* the insertions made into the current line

vars == << pc, args, source, tree, tmp, paths, path, stats, last_line,
           count_env, line_nr, line, pending, total_annotation_length, inserted >>

NoPath == << "", "" >>
NoTmp == [exists |-> FALSE, content |-> << >>]
EmptyMap == [x \in {} |-> 0]

\* stats as line 172 and line 195 leave it, before the table is loaded
FreshStats ==
    [ index_terms |-> 0,
      edited_files |-> 0,
      environment_blocks_skipped |-> 0,
      indexed_matches |-> 0,
      invalid_matches |-> 0,
      annotation_distribution |-> [c \in Concepts |-> 0] ]

\* last_line = defaultdict(lambda: -1)
FreshLastLine == [c \in Concepts |-> -1]

\* The state of the process's memory before it has run, and after it is gone.
MemoryClear ==
    /\ paths = << >>
    /\ path = NoPath
    /\ stats = FreshStats
    /\ last_line = FreshLastLine
    /\ count_env = EmptyMap
    /\ line_nr = -1
    /\ line = << >>
    /\ pending = << >>
    /\ total_annotation_length = 0
    /\ inserted = << >>

\* The script started with command line a on project src.
InitWith(a, src) ==
    /\ pc = "start"
    /\ args = a
    /\ source = src
    /\ tree = EmptyMap
    /\ tmp = NoTmp
    /\ MemoryClear

\* ------------------------------------------------------------------------
\* The script, step by step
\* ------------------------------------------------------------------------

\* The lines of the file being processed.
TexLines == tree[path]

\* glob.iglob('%s/**/*.tex'), relative to the target directory
RelativePaths(t) == {p \in DOMAIN t : IsTex(p)}

\* stats once the concepts table is loaded
LoadedStats == [FreshStats EXCEPT !.index_terms = Cardinality(ConceptTable)]

\* Lines 152-195: copy the project, find the files, build the matcher.  The
\* target directory existing ends the run; args.exclude being None makes
\* the iteration of line 169 raise TypeError, after the copy.
Start ==
    /\ pc = "start"
    /\ IF args.target_exists
       THEN /\ pc' = "exit1"
            /\ UNCHANGED << tree, paths, stats >>
       ELSE /\ tree' = source
            /\ IF args.exclude = None
               THEN /\ pc' = "TypeError"
                    /\ UNCHANGED << paths, stats >>
               ELSE /\ pc' = "loop"
                    /\ paths' = Sorted(RelativePaths(source) \ args.exclude.val)
                    /\ stats' = LoadedStats
    /\ UNCHANGED << args, source, tmp, path, last_line, count_env, line_nr,
                    line, pending, total_annotation_length, inserted >>

\* Fault: the counters start afresh with every file.
StatsResetAtOpen(st) ==
    [FreshStats EXCEPT !.index_terms = st.index_terms,
                       !.edited_files = 1,
                       !.annotation_distribution = st.annotation_distribution]

\* stats at the top of the loop body: line 200
StatsAtOpen(st) == [st EXCEPT !.edited_files = @ + 1]

\* Lines 197-205: the next path; the scratch file is created empty.
OpenFile ==
    /\ pc = "loop"
    /\ paths # << >>
    /\ path' = Head(paths)
    /\ paths' = Tail(paths)
    /\ stats' = StatsAtOpen(stats)
    /\ last_line' = FreshLastLine
    /\ count_env' = EmptyMap
    /\ tmp' = [exists |-> TRUE, content |-> << >>]
    /\ line_nr' = -1
    /\ pc' = "read"
    /\ UNCHANGED << args, source, tree, line, pending,
                    total_annotation_length, inserted >>

\* count_env after lines 208-209 have seen the line
EnvAfter(raw, ce, allowed_env) ==
    check_end(raw, check_begin(raw, ce, allowed_env), allowed_env)

\* Lines 207-217: the next line, the environment check, and either the
\* skip (write the line, count it, continue) or the start of the scan.
ReadLine ==
    /\ pc = "read"
    /\ line_nr + 1 < Len(TexLines)
    /\ LET raw == TexLines[line_nr + 2]
           ce == EnvAfter(raw, count_env, args.allowed_env)
       IN  /\ line_nr' = line_nr + 1
           /\ line' = raw
           /\ count_env' = ce
           /\ inserted' = << >>
           /\ IF is_inside_env(ce)
              THEN /\ tmp' = [tmp EXCEPT !.content = Append(@, raw)]
                   /\ stats' = [stats EXCEPT !.environment_blocks_skipped = @ + 1]
                   /\ pending' = << >>
                   /\ pc' = "read"
                   /\ UNCHANGED total_annotation_length
              ELSE /\ pending' = iter_long(raw)
                   /\ total_annotation_length' = 0
                   /\ pc' = "match"
                   /\ UNCHANGED << tmp, stats >>
    /\ UNCHANGED << args, source, tree, paths, path, last_line >>

\* Fault: the end index is used as the matcher reports it.
UncorrectedEnd(m, total) == m.end

\* end_index as line 218 corrects it
CorrectedEnd(m, total) == m.end + total

\* start_index of line 219
StartIndex(m, end_index) == end_index - Len(m.match) + 1

\* The condition of lines 221-224
Invalid(ln, m, end_index) ==
    \/ is_invalid_concept(m.concept)
    \/ is_inside_command(ln, StartIndex(m, end_index), end_index, "{", "}")
    \/ is_inside_command(ln, StartIndex(m, end_index), end_index, "[", "]")
    \/ is_part_of_command(ln, end_index)

\* The characters line 230 hands to re.match(r'\W', ...)
CharAfter(ln, end_index) == PyIndex(ln, end_index + 1)
CharBefore(ln, m, end_index) == PyIndex(ln, end_index - Len(m.match))

\* line 233
InsertAt(ln, end_index, annotation) ==
    PySlice(ln, 0, end_index + 1) \o annotation \o PyFrom(ln, end_index + 1)

\* Lines 217-239: one match of the scan.
ProcessMatch ==
    /\ pc = "match"
    /\ pending # << >>
    /\ LET m == Head(pending)
           end_index == CorrectedEnd(m, total_annotation_length)
       IN  /\ pending' = Tail(pending)
           /\ IF Invalid(line, m, end_index)
              THEN /\ stats' = [stats EXCEPT !.invalid_matches = @ + 1]
                   /\ UNCHANGED << pc, line, total_annotation_length,
                                   last_line, inserted >>
              ELSE IF CharAfter(line, end_index) = IndexError
              THEN /\ pc' = "IndexError"
                   /\ UNCHANGED << stats, line, total_annotation_length,
                                   last_line, inserted >>
              ELSE IF /\ NonWord(CharAfter(line, end_index))
                      /\ NonWord(CharBefore(line, m, end_index))
                      /\ can_annotate(args.method, last_line[m.concept],
                                      line_nr, m.concept)
              THEN /\ line' = InsertAt(line, end_index, Annotation(m.concept))
                   /\ stats' = [stats EXCEPT
                                  !.indexed_matches = @ + 1,
                                  !.annotation_distribution[m.concept] = @ + 1]
                   /\ total_annotation_length' =
                          total_annotation_length + Len(Annotation(m.concept))
                   /\ last_line' = [last_line EXCEPT ![m.concept] = line_nr]
                   /\ inserted' = Append(inserted, m)
                   /\ UNCHANGED pc
              ELSE UNCHANGED << pc, stats, line, total_annotation_length,
                                last_line, inserted >>
    /\ UNCHANGED << args, source, tree, tmp, paths, path, count_env, line_nr >>

\* Line 241: the scan of the line is over.
WriteLine ==
    /\ pc = "match"
    /\ pending = << >>
    /\ tmp' = [tmp EXCEPT !.content = Append(@, line)]
    /\ pc' = "read"
    /\ UNCHANGED << args, source, tree, paths, path, stats, last_line,
                    count_env, line_nr, line, pending,
                    total_annotation_length, inserted >>

\* Lines 243-244: the file is read to its end; both files are closed.
CloseFile ==
    /\ pc = "read"
    /\ line_nr + 1 = Len(TexLines)
    /\ pc' = "copy"
    /\ UNCHANGED << args, source, tree, tmp, paths, path, stats, last_line,
                    count_env, line_nr, line, pending,
                    total_annotation_length, inserted >>

\* Line 245, copy2: the destination is opened for writing, which empties it.
CopyOpen ==
    /\ pc = "copy"
    /\ tree' = [tree EXCEPT ![path] = << >>]
    /\ pc' = "copydata"
    /\ UNCHANGED << args, source, tmp, paths, path, stats, last_line,
                    count_env, line_nr, line, pending,
                    total_annotation_length, inserted >>

\* Line 245, copy2: the content of the scratch file is written to it.
CopyWrite ==
    /\ pc = "copydata"
    /\ tree' = [tree EXCEPT ![path] = tmp.content]
    /\ pc' = "unlink"
    /\ UNCHANGED << args, source, tmp, paths, path, stats, last_line,
                    count_env, line_nr, line, pending,
                    total_annotation_length, inserted >>

\* Line 246
Unlink ==
    /\ pc = "unlink"
    /\ tmp' = NoTmp
    /\ pc' = "loop"
    /\ UNCHANGED << args, source, tree, paths, path, stats, last_line,
                    count_env, line_nr, line, pending,
                    total_annotation_length, inserted >>

\* Lines 253-268: every path is done; the statistics are printed.
Report ==
    /\ pc = "loop"
    /\ paths = << >>
    /\ pc' = "done"
    /\ UNCHANGED << args, source, tree, tmp, paths, path, stats, last_line,
                    count_env, line_nr, line, pending,
                    total_annotation_length, inserted >>

Running == pc \in {"loop", "read", "match", "copy", "copydata", "unlink"}

\* The process is terminated: its memory is gone, the files stay.
Kill ==
    /\ Running
    /\ pc' = "killed"
    /\ paths' = << >>
    /\ path' = NoPath
    /\ stats' = FreshStats
    /\ last_line' = FreshLastLine
    /\ count_env' = EmptyMap
    /\ line_nr' = -1
    /\ line' = << >>
    /\ pending' = << >>
    /\ total_annotation_length' = 0
    /\ inserted' = << >>
    /\ UNCHANGED << args, source, tree, tmp >>

Next ==
    \/ Start
    \/ OpenFile
    \/ ReadLine
    \/ ProcessMatch
    \/ WriteLine
    \/ CloseFile
    \/ CopyOpen
    \/ CopyWrite
    \/ Unlink
    \/ Report
    \/ Kill

\* ------------------------------------------------------------------------
\* Inputs
\* ------------------------------------------------------------------------

\* Every text made of at most n pieces of T.
RECURSIVE Texts(_, _)
Texts(T, n) ==
    IF n = 0 THEN { << >> }
    ELSE LET shorter == Texts(T, n - 1)
         IN  shorter \cup {t \o u : t \in T, u \in shorter}

MethodChoices == {None, Some({"dist"}), Some({"stop"}), Some({"dist", "stop"})}

\* The command line: -e given without a match, the default -a, -m as m.
ArgsWith(m) ==
    [ exclude |-> Some({}),
      allowed_env |-> {sSloppypar},
      method |-> m,
      target_exists |-> FALSE ]

OneFile(content) == [p \in {TexA} |-> SplitLines(content)]

BeginF == BeginTag \o sFig \o <<"}">>
EndF == EndTag \o sFig \o <<"}">>
BeginS == BeginTag \o sSloppypar \o <<"}">>
EndS == EndTag \o sSloppypar \o <<"}">>

\* Environment delimiters, a match and line ends, with the default -a and
\* with one more environment allowed.
MaxEnvPieces == 4
EnvPieces == {BeginF, EndF, BeginS, EndS, sAb, <<NL>>}
AllowedChoices == { {sSloppypar}, {sSloppypar, sFig} }

InitEnv ==
    \E c \in Texts(EnvPieces, MaxEnvPieces), a \in AllowedChoices :
        InitWith([ArgsWith(None) EXCEPT !.allowed_env = a], OneFile(c))

SpecEnv == InitEnv /\ [][Next]_vars

\* Matches of two concepts, apart by one space or by a gap as wide as a
\* marker, with no method selected.
MaxRewritePieces == 6
Gap == [i \in 1..Len(Annotation(sAb)) |-> " "]
RewritePieces == {sAb, sTerm, <<" ">>, Gap, <<NL>>}

InitRewrite ==
    \E c \in Texts(RewritePieces, MaxRewritePieces) :
        InitWith(ArgsWith(None), OneFile(c))

SpecRewrite == InitRewrite /\ [][Next]_vars

\* A match among letters, digits, braces, backslashes and line ends.
MaxBoundaryPieces == 4
BoundaryPieces == {sAb, <<" ">>, <<"x">>, <<"1">>, <<BS>>, <<"{">>, <<"}">>, <<NL>>}

InitBoundary ==
    \E c \in Texts(BoundaryPieces, MaxBoundaryPieces) :
        InitWith(ArgsWith(None), OneFile(c))

SpecBoundary == InitBoundary /\ [][Next]_vars

\* A project of two LaTeX files and a bibliography, under every choice of
\* -e and with or without the stopword method; the target may exist.
MaxFileLines == 2
ProjectLines ==
    { sAb \o <<NL>>,
      sSlash \o <<" ">> \o sTerm \o <<NL>>,
      BeginF \o <<NL>> }

ExcludeChoices == {None, Some({}), Some({TexB})}

ProjectArgs ==
    { [ exclude |-> e, allowed_env |-> {sSloppypar}, method |-> m,
        target_exists |-> x ] :
      e \in ExcludeChoices, m \in {None, Some({"stop"})}, x \in BOOLEAN }

Project(a, b) ==
    [p \in {TexA, TexB, BibR} |->
        IF p = TexA THEN SplitLines(a)
        ELSE IF p = TexB THEN SplitLines(b)
        ELSE << <<"@">> >>]

Init ==
    \E a \in Texts(ProjectLines, MaxFileLines),
       b \in Texts(ProjectLines, MaxFileLines),
       g \in ProjectArgs :
        InitWith(g, Project(a, b))

Spec == Init /\ [][Next]_vars

\* A long file, alone or followed by a short one, under every choice of -m:
\* an occurrence of two concepts, one of them a stopword, on some of the
\* lines below, and empty lines everywhere else.
FileLines == 216
OccurrenceLines == {10, 150, 210, 211, 215}
OccurrenceLine == sAb \o <<" ">> \o sTerm \o <<NL>>

LongFile(occ) ==
    [i \in 1..FileLines |-> IF (i - 1) \in occ THEN OccurrenceLine ELSE <<NL>>]

LongProjects ==
    { [p \in {TexA} |-> LongFile(occ)] : occ \in SUBSET OccurrenceLines }
    \cup
    { [p \in {TexA, TexB} |->
          IF p = TexA THEN LongFile(occ) ELSE << OccurrenceLine >>] :
      occ \in SUBSET OccurrenceLines }

InitLong ==
    \E src \in LongProjects, m \in MethodChoices : InitWith(ArgsWith(m), src)

SpecLong == InitLong /\ [][Next]_vars

\* ------------------------------------------------------------------------
\* Vocabulary of the properties
\* ------------------------------------------------------------------------

\* The step is ReadLine, ProcessMatch, OpenFile.
IsReadLine == pc = "read" /\ pc' # "killed" /\ line_nr' = line_nr + 1
IsProcessMatch == pc = "match" /\ pc' # "killed" /\ pending # << >>
IsOpenFile == pc = "loop" /\ pc' = "read"

\* The line of the input file that is being, or was last, processed.
OrigLine == tree[path][line_nr + 1]

\* The counters after lines 1..k of a file, from counters at zero.
RECURSIVE EnvFold(_, _, _)
EnvFold(lines, k, allowed_env) ==
    IF k = 0 THEN EmptyMap
    ELSE check_end(lines[k],
                   check_begin(lines[k], EnvFold(lines, k - 1, allowed_env), allowed_env),
                   allowed_env)

SomePositiveDepth(ce) == \E n \in DOMAIN ce : ce[n] >= 1

\* (C1) While a file is indexed, a line at which some non-allowed
\* environment has a strictly positive depth (the counters run from zero at
\* the top of the file, through check_begin and check_end of this line) is
\* written to the scratch file unchanged, no match of it is scanned or
\* counted, no marker is inserted, and 'environment blocks skipped' grows by
\* exactly one.
C1_SkippedLineUnchanged ==
    [][ (IsReadLine
         /\ SomePositiveDepth(EnvFold(tree[path], line_nr + 2, args.allowed_env)))
        => /\ tmp'.content = Append(tmp.content, tree[path][line_nr + 2])
           /\ stats' = [stats EXCEPT !.environment_blocks_skipped = @ + 1]
           /\ pending' = << >>
           /\ inserted' = << >>
           /\ last_line' = last_line
           /\ pc' = "read" ]_vars

\* A second line, holding a match, was skipped inside an environment that
\* an earlier line opened.
C1_Witness ==
    /\ pc = "read"
    /\ line_nr >= 1
    /\ iter_long(OrigLine) # << >>
    /\ TagPlaces(OrigLine, BeginTag) = {}
    /\ stats.environment_blocks_skipped = 2
    /\ tmp.content[line_nr + 1] = OrigLine

\* The delimiters of a line, by the Python index of their backslash: a tag
\* with a closing brace somewhere after it.
Delimiters(ln, tag) == TagPlaces(ln, tag)
Leftmost(S) == CHOOSE i \in S : \A j \in S : i <= j
Rightmost(S) == CHOOSE i \in S : \A j \in S : i >= j

\* The counters once the delimiter at place i of the line is recognised as
\* changing its environment's depth by d.
Recognised(ln, tag, i, d, ce) ==
    IF TagGroup(ln, tag, i) \in args.allowed_env
    THEN ce
    ELSE EnvAdd(ce, TagGroup(ln, tag, i), d)

RecognisingLeftmost(ln, tag, d, ce) ==
    IF Delimiters(ln, tag) = {} THEN ce
    ELSE Recognised(ln, tag, Leftmost(Delimiters(ln, tag)), d, ce)

RecognisingRightmost(ln, tag, d, ce) ==
    IF Delimiters(ln, tag) = {} THEN ce
    ELSE Recognised(ln, tag, Rightmost(Delimiters(ln, tag)), d, ce)

\* (C10), as claimed: on every line, also one with several \begin{...} or
\* several \end{...} delimiters, check_begin and check_end recognise the
\* leftmost delimiter only: its counter changes when its name is not
\* allowed, and no counter changes when it is.
C10_LeftmostRecognised ==
    [][ IsReadLine
        => count_env' =
             RecognisingLeftmost(tree[path][line_nr + 2], EndTag, -1,
                RecognisingLeftmost(tree[path][line_nr + 2], BeginTag, 1, count_env))
      ]_vars

\* (C10), amended: on every line, also one with several \begin{...} or
\* several \end{...} delimiters, check_begin and check_end recognise the
\* rightmost delimiter only: its counter changes when its name is not
\* allowed, and no counter changes when it is.
C10_RightmostRecognised ==
    [][ IsReadLine
        => count_env' =
             RecognisingRightmost(tree[path][line_nr + 2], EndTag, -1,
                RecognisingRightmost(tree[path][line_nr + 2], BeginTag, 1, count_env))
      ]_vars

\* A line with two \begin delimiters of different names, the rightmost
\* allowed and the leftmost not, has been read and no counter has changed.
C10_Witness ==
    /\ pc \in {"read", "match"}
    /\ line_nr = 0
    /\ args.allowed_env = {sSloppypar}
    /\ Cardinality(Delimiters(OrigLine, BeginTag)) = 2
    /\ TagGroup(OrigLine, BeginTag, Leftmost(Delimiters(OrigLine, BeginTag))) = sFig
    /\ TagGroup(OrigLine, BeginTag, Rightmost(Delimiters(OrigLine, BeginTag))) = sSloppypar
    /\ count_env = EmptyMap

\* The marker of a match.
MarkerOf(m) == <<BS,"i","n","d","e","x","{">> \o m.concept \o <<"}">>

\* The original line with the marker of each match of ms put directly after
\* the match's last character, at the place the matcher reported in the
\* original line; the rightmost is placed first, so no place ever moves.
RECURSIVE MarkedUp(_, _)
MarkedUp(orig, ms) ==
    IF ms = << >> THEN orig
    ELSE LET m == ms[Len(ms)]
         IN  MarkedUp(SubSeq(orig, 1, m.end + 1) \o MarkerOf(m)
                          \o SubSeq(orig, m.end + 2, Len(orig)),
                      SubSeq(ms, 1, Len(ms) - 1))

\* The total length of the markers of the first k matches of ms.
RECURSIVE MarkersLength(_, _)
MarkersLength(ms, k) ==
    IF k = 0 THEN 0 ELSE MarkersLength(ms, k - 1) + Len(MarkerOf(ms[k]))

\* In the text ln, the i-th annotated match stands where the matcher found
\* it, moved right by the markers before it, and its marker follows it.
MarkerFollowsMatch(ln, ms, i) ==
    LET last == ms[i].end + 1 + MarkersLength(ms, i - 1)
    IN  /\ SubSeq(ln, last - Len(ms[i].match) + 1, last) = ms[i].match
        /\ SubSeq(ln, last + 1, last + Len(MarkerOf(ms[i]))) = MarkerOf(ms[i])

\* The annotated matches are matches the matcher reported, left to right.
ReportedInOrder(orig, ms) ==
    /\ \A i \in 1..Len(ms) : \E k \in 1..Len(iter_long(orig)) : iter_long(orig)[k] = ms[i]
    /\ \A i \in 1..(Len(ms) - 1) : ms[i].end < ms[i + 1].end

RewrittenAs(ln, orig, ms) ==
    /\ ReportedInOrder(orig, ms)
    /\ ln = MarkedUp(orig, ms)
    /\ \A i \in 1..Len(ms) : MarkerFollowsMatch(ln, ms, i)

\* (C2) For a line that is not excluded, the line as rewritten so far, and
\* the line written to the output once its scan is over, is the original
\* line with the text \index{<concept>} directly after the last character of
\* each annotated match, in order, nothing else added, removed or moved;
\* each marker follows its own match however many markers precede it.
C2_MarkersFollowMatches ==
    /\ pc = "match" => RewrittenAs(line, OrigLine, inserted)
    /\ (pc = "read" /\ line_nr >= 0)
          => RewrittenAs(tmp.content[line_nr + 1], OrigLine, inserted)

\* A line with three annotated matches of two concepts has been written.
C2_Witness ==
    /\ pc = "read"
    /\ Len(inserted) = 3
    /\ \E i, j \in 1..3 : inserted[i].concept # inserted[j].concept
    /\ Len(tmp.content[line_nr + 1]) = Len(OrigLine) + MarkersLength(inserted, 3)

DistSelected == args.method.some /\ "dist" \in args.method.val
StopSelected == args.method.some /\ "stop" \in args.method.val

\* The lines of a text, by index from 0, that hold a marker of concept c, and
\* those on which the matcher reports c.
AnnotatedLines(lines, c) ==
    {k \in 0..(Len(lines) - 1) : Contains(lines[k + 1], Annotation(c))}

OccurrenceLinesOf(lines, c) ==
    {k \in 0..(Len(lines) - 1) :
        \E i \in 1..Len(iter_long(lines[k + 1])) : iter_long(lines[k + 1])[i].concept = c}

Latest(S) == IF S = {} THEN -1 ELSE CHOOSE k \in S : \A j \in S : j <= k

\* The lines produced so far for the file being processed.
Produced == IF pc = "match" THEN Append(tmp.content, line) ELSE tmp.content

\* In the output out of the input src: an occurrence of c is annotated if
\* and only if c has no annotation above it or the latest one above it is
\* more than 200 lines up; so two annotations are more than 200 lines apart.
DistanceRule(out, src, c) ==
    LET annotated == AnnotatedLines(out, c)
        occurring == OccurrenceLinesOf(src, c)
    IN  /\ \A k \in 0..(Len(out) - 1) :
              k \in annotated
              <=> /\ k \in occurring
                  /\ LET above == {j \in annotated : j < k}
                     IN  above = {} \/ k > Latest(above) + 200
        /\ \A j, k \in annotated : j < k => k - j > 200

\* The concepts whose occurrences in the files are acceptable but for the
\* distance: valid, between non-word characters, and no stopword when the
\* stopword method is selected too.
Acceptable == {c \in {sAb, sTerm} : ~StopSelected \/ c \notin THESIS_STOPWORDS}

\* (C3) With the distance method selected, in each file an otherwise
\* acceptable occurrence of a concept on line n is annotated if and only if
\* the concept has no annotation yet in this file or n is more than 200
\* after its latest one; the last-annotated line is that of the latest
\* marker inserted in this file, -1 when there is none; occurrences on lines
\* 10 and 150 give one annotation, on lines 10 and 215 two, and two
\* annotations of a concept in one file are more than 200 lines apart.
C3_DistanceThrottle ==
    DistSelected =>
      /\ pc \in {"read", "match", "copy"} =>
            \A c \in Acceptable :
                /\ DistanceRule(tmp.content, tree[path], c)
                /\ last_line[c] = Latest(AnnotatedLines(Produced, c))
      /\ pc = "done" =>
            /\ \A p \in RelativePaths(tree), c \in Acceptable :
                    DistanceRule(tree[p], source[p], c)
            /\ OccurrenceLinesOf(source[TexA], sAb) = {10, 150}
                  => AnnotatedLines(tree[TexA], sAb) = {10}
            /\ OccurrenceLinesOf(source[TexA], sAb) = {10, 215}
                  => AnnotatedLines(tree[TexA], sAb) = {10, 215}

\* The run is over: of the occurrences on lines 10, 150 and 215 of the
\* first file the first and the last are annotated, and so is the one on
\* the first line of the second file.
C3_Witness ==
    /\ pc = "done"
    /\ DistSelected
    /\ OccurrenceLinesOf(source[TexA], sAb) = {10, 150, 215}
    /\ AnnotatedLines(tree[TexA], sAb) = {10, 215}
    /\ TexB \in DOMAIN tree
    /\ AnnotatedLines(tree[TexB], sAb) = {0}

\* The match of this step passed lines 221-224 and the two \W tests.
PassedChecks ==
    LET m == Head(pending)
        e == m.end + total_annotation_length
    IN  /\ ~Invalid(line, m, e)
        /\ e + 1 < Len(line)
        /\ line[e + 2] \notin WordChars
        /\ CharBefore(line, m, e) \notin WordChars

\* What the selected methods decide for the match of this step.
Decision ==
    LET c == Head(pending).concept
    IN  /\ ~DistSelected \/ last_line[c] = -1 \/ line_nr > last_line[c] + 200
        /\ ~StopSelected \/ c \notin THESIS_STOPWORDS

\* (C4) A match that passed rules 1-3 and the word-boundary check is
\* annotated exactly when (dist is not selected or the distance condition
\* holds) and (stop is not selected or the concept is no stopword); with
\* stop selected no stopword is annotated anywhere.
C4_MethodsConjoined ==
    /\ [](StopSelected =>
            \A c \in Concepts \cap THESIS_STOPWORDS :
                /\ stats.annotation_distribution[c] = 0
                /\ \A p \in DOMAIN tree : AnnotatedLines(tree[p], c) = {}
                /\ AnnotatedLines(Produced, c) = {})
    /\ [][ (IsProcessMatch /\ PassedChecks)
           => IF Decision
              THEN /\ inserted' = Append(inserted, Head(pending))
                   /\ line' # line
                   /\ stats'.indexed_matches = stats.indexed_matches + 1
              ELSE /\ inserted' = inserted
                   /\ line' = line
                   /\ stats' = stats ]_vars

\* Both methods are selected; on one line the match of a concept that is no
\* stopword was annotated and the match of a stopword was not.
C4_Witness ==
    /\ DistSelected
    /\ StopSelected
    /\ pc = "match"
    /\ pending = << >>
    /\ Len(iter_long(OrigLine)) = 2
    /\ Len(inserted) = 1
    /\ inserted[1].concept \notin THESIS_STOPWORDS

\* In the text ln, the match m whose last character is at Python index e
\* has a word character directly before its first character or directly
\* after its last one.
AdjacentToWordIn(ln, m, e) ==
    \/ /\ e - Len(m.match) >= 0
       /\ ln[e - Len(m.match) + 1] \in WordChars
    \/ /\ e + 1 < Len(ln)
       /\ ln[e + 2] \in WordChars

\* The match of this step is adjacent to a word character; it fails one of
\* the rules 1-3.
AdjacentToWord ==
    AdjacentToWordIn(line, Head(pending), Head(pending).end + total_annotation_length)

FailsRules ==
    Invalid(line, Head(pending), Head(pending).end + total_annotation_length)

\* (C5), as claimed: for a match with a word character directly before or
\* after it, no marker is inserted and no statistics counter changes,
\* 'invalid matches' included, whatever surrounds the match.
C5_AdjacentMatchUncounted ==
    [][ (IsProcessMatch /\ AdjacentToWord)
        => line' = line /\ inserted' = inserted /\ stats' = stats ]_vars

\* (C5), amended: for a match with a word character directly before or after
\* it, no marker is inserted; no statistics counter changes when the match
\* passes rules 1-3, and 'invalid matches' alone grows by one when it fails
\* them.
C5_AdjacentMatchNotAnnotated ==
    [][ (IsProcessMatch /\ AdjacentToWord)
        => /\ line' = line
           /\ inserted' = inserted
           /\ stats' = IF FailsRules
                       THEN [stats EXCEPT !.invalid_matches = @ + 1]
                       ELSE stats ]_vars

\* The only match of a line follows a digit, passed rules 1-3 and was left
\* alone: the line and the counters are as before.
C5_Witness ==
    /\ pc = "match"
    /\ pending = << >>
    /\ Len(iter_long(OrigLine)) = 1
    /\ iter_long(OrigLine)[1].end - Len(iter_long(OrigLine)[1].match) >= 0
    /\ OrigLine[iter_long(OrigLine)[1].end - Len(iter_long(OrigLine)[1].match) + 1] \in Digits
    /\ ~Invalid(OrigLine, iter_long(OrigLine)[1], iter_long(OrigLine)[1].end)
    /\ line = OrigLine
    /\ stats.invalid_matches = 0
    /\ stats.indexed_matches = 0

\* (C6) The word-boundary check of a match that passed rules 1-3 ends in
\* 'annotate' or 'skip', wherever the match is in the line, and the scan goes
\* on with the next match: it raises no error.
C6_BoundaryCheckRecovers ==
    [][ (IsProcessMatch /\ ~FailsRules) => pc' = "match" ]_vars

\* The files of the output tree are those of the project, each with its
\* previous content or with its rewritten content, whole: the lines of the
\* original, in order, each the original line or that line with markers.
RECURSIVE WithoutMarkers(_)
WithoutMarkers(ln) ==
    IF ln = << >> THEN << >>
    ELSE IF \E c \in Concepts : OccursAt(ln, Annotation(c), 0)
    THEN LET c == CHOOSE c \in Concepts : OccursAt(ln, Annotation(c), 0)
         IN  WithoutMarkers(SubSeq(ln, Len(Annotation(c)) + 1, Len(ln)))
    ELSE << Head(ln) >> \o WithoutMarkers(Tail(ln))

WholeContent(new, old) ==
    /\ Len(new) = Len(old)
    /\ \A i \in 1..Len(old) : WithoutMarkers(new[i]) = old[i]

\* (C7) Whenever the process is terminated, every manuscript file of the
\* output tree holds its whole previous content or its whole rewritten
\* content, never a part of it.
C7_NeverPartialContent ==
    pc = "killed" =>
        \A p \in DOMAIN tree : tree[p] = source[p] \/ WholeContent(tree[p], source[p])

\* (C8), as claimed: when the processing of a file starts, the statistics
\* counters and the last-annotated lines are reset, and only the frequency
\* distribution is carried over.  Of the counters, the three that no step
\* of the start of a file touches are stated: indexed matches, invalid
\* matches and environment blocks skipped are zero again.
C8_CountersResetPerFile ==
    [][ IsOpenFile
        => /\ last_line' = [c \in Concepts |-> -1]
           /\ stats'.indexed_matches = 0
           /\ stats'.invalid_matches = 0
           /\ stats'.environment_blocks_skipped = 0
           /\ stats'.annotation_distribution = stats.annotation_distribution ]_vars

\* (C8), amended: when the processing of a file starts, only the
\* last-annotated lines are reset; indexed matches, invalid matches,
\* environment blocks skipped and the frequency distribution are carried
\* over from the files before, and edited files grows by one.
C8_CountersCarriedOver ==
    [][ IsOpenFile
        => /\ last_line' = [c \in Concepts |-> -1]
           /\ stats'.edited_files = stats.edited_files + 1
           /\ stats'.indexed_matches = stats.indexed_matches
           /\ stats'.invalid_matches = stats.invalid_matches
           /\ stats'.environment_blocks_skipped = stats.environment_blocks_skipped
           /\ stats'.annotation_distribution = stats.annotation_distribution ]_vars

\* The second file has just been opened, after a first file in which a
\* match was indexed, a match was invalid and a line was skipped.
C8_Witness ==
    /\ pc = "read"
    /\ line_nr = -1
    /\ stats.edited_files = 2
    /\ stats.indexed_matches > 0
    /\ stats.invalid_matches > 0
    /\ stats.environment_blocks_skipped > 0
    /\ last_line = [c \in Concepts |-> -1]

\* (C9) A run with an input file, a concepts table and a fresh output
\* directory, with or without methods and with no exclude option, completes,
\* and every .tex file in which no match was annotated is in the output tree
\* as it is in the input.
C9_RunWithoutExcludeCompletes ==
    (~args.target_exists /\ args.exclude = None /\ pc # "start")
        => /\ pc \in {"done", "killed"} \cup {"loop", "read", "match", "copy", "copydata", "unlink"}
           /\ pc = "done" =>
                \A p \in RelativePaths(source) :
                    (\A c \in Concepts : AnnotatedLines(tree[p], c) = {})
                        => tree[p] = source[p]

====
